---- MODULE Spec2Model ----
(***************************************************************************)
(* Model of retry_deco/retry.py: policy construction (retry, Retry,        *)
(* RetryAsync), the callback registry (sanitize_on_exception), the attempt *)
(* loop (retry_logic / retry_logic_async) and handle_delay; and of the      *)
(* legacy decorator of retry_decorator/retry_decorator.py.                 *)
(*                                                                         *)
(* Durations are integers (one unit = one tick of the clock); a jitter     *)
(* draw is any integer of the range random.uniform may return from.        *)
(***************************************************************************)
EXTENDS Integers, Sequences, FiniteSets, TLC

VARIABLES
    cfg,              \* the arguments given to retry(...) / Retry(...) / RetryAsync(...)
    onex,             \* the normalized registry (sanitize_on_exception's result)
    pc,               \* position of the single invocation
    count,            \* retry_logic: count
    e,                \* retry_logic: the caught exception
    scan,             \* retry_logic: position of `for error_type in onex`
    current_backoff,  \* retry_logic: current_backoff
    return_val,       \* retry_logic: return_val
    calls,            \* number of times f() was invoked
    results,          \* what each call of f() did: "ok" or the raised type
    trace,            \* observable events, in order
    outcome,          \* what the caller of the invocation (or constructor) gets
    other,            \* the locals of a second invocation that shares the policy
    legacy            \* retry_decorator.retry: its arguments and _retry_logic's locals

vars == <<cfg, onex, pc, count, e, scan, current_backoff, return_val,
          calls, results, trace, outcome, other, legacy>>

-----------------------------------------------------------------------------
(* Bounds of the model *)

\* largest bounded retry budget explored
MaxRetries == 2
\* cap on f() invocations, so that retries = -1 stays finite
MaxCalls == 3
\* largest backoff / max_backoff / jitter magnitude explored by BackoffConfigs
MaxBackoff == 2

-----------------------------------------------------------------------------
(* Exception types: the part of Python's hierarchy the model raises *)

Types == {"BaseException", "Exception", "LookupError", "KeyError",
          "ValueError", "KeyboardInterrupt", "CancelledError"}

Parent(t) ==
    CASE t = "Exception"         -> "BaseException"
      [] t = "LookupError"       -> "Exception"
      [] t = "KeyError"          -> "LookupError"
      [] t = "ValueError"        -> "Exception"
      [] t = "KeyboardInterrupt" -> "BaseException"
      [] t = "CancelledError"    -> "BaseException"
      [] OTHER                   -> "BaseException"

RECURSIVE isinstance(_, _)
\* isinstance(e, error_type): the failure's type is error_type or a subtype
isinstance(t, c) ==
    IF t = c THEN TRUE
    ELSE IF t = "BaseException" THEN FALSE
    ELSE isinstance(Parent(t), c)

\* `except expected_exception`: expected_exception is a type or a tuple of types
Qualifies(t, expected) == \E c \in expected : isinstance(t, c)

-----------------------------------------------------------------------------
(* Values *)

None      == [kind |-> "none",    type |-> "-", id |-> 0]
Unbound   == [kind |-> "unbound", type |-> "-", id |-> 0]
Exc(t, i) == [kind |-> "exc",     type |-> t,   id |-> i]
Ok(i)     == [kind |-> "result",  type |-> "ok", id |-> i]
AssertionError == Exc("AssertionError", 0)
UnboundLocalError == Exc("UnboundLocalError", 0)

Pending    == [how |-> "pending", val |-> None]
Return(v)  == [how |-> "return",  val |-> v]
Raise(x)   == [how |-> "raise",   val |-> x]

Event(ev, id, k) == [ev |-> ev, id |-> id, k |-> k]

\* OnErrOpts flags
RUN_ON_LAST_TRY == "RUN_ON_LAST_TRY"
BREAK_OUT == "BREAK_OUT"
OnErrOpts == SUBSET {RUN_ON_LAST_TRY, BREAK_OUT}
DEFAULT_ONEX_OPTS == {}

-----------------------------------------------------------------------------
(* Configuration validator *)

Abs(x) == IF x < 0 THEN -x ELSE x
Max(a, b) == IF a >= b THEN a ELSE b
Min(a, b) == IF a <= b THEN a ELSE b

\* jitter is a number or a (min, max) tuple
Num(j)     == [tuple |-> FALSE, a |-> j, b |-> j]
Pair(a, b) == [tuple |-> TRUE,  a |-> a, b |-> b]
\* `if jitter:` a number is truthy when non-zero, a 2-tuple always
JitterTruthy(jitter) == jitter.tuple \/ jitter.a # 0
JitterExtreme(jitter) ==
    IF jitter.tuple THEN Max(Abs(jitter.a), Abs(jitter.b)) ELSE Abs(jitter.a)

\* the jitter bound is compared without abs(): a negative jitter passes
validate_backoff_NoAbs(backoff, exponential_backoff, max_backoff, jitter) ==
    /\ IF exponential_backoff
       THEN /\ backoff > 0
            /\ (max_backoff # 0 => max_backoff > backoff)
       ELSE /\ backoff >= 0
            /\ ~(max_backoff # 0)
    /\ (JitterTruthy(jitter) =>
            (IF jitter.tuple THEN Max(jitter.a, jitter.b) ELSE jitter.a) <= backoff)

\* TRUE when every assert of validate_backoff passes
validate_backoff(backoff, exponential_backoff, max_backoff, jitter) ==
    /\ IF exponential_backoff
       THEN /\ backoff > 0
            /\ (max_backoff # 0 => max_backoff > backoff)
       ELSE /\ backoff >= 0
            /\ ~(max_backoff # 0)
    /\ (JitterTruthy(jitter) => JitterExtreme(jitter) <= backoff)

-----------------------------------------------------------------------------
(* Callback registry *)

\* a callable is known by whether it is a coroutine function
iscoroutinefunction(c) == c.async

\* An on_exception argument: shape "none", "callable", "tuple" or "dict";
\* items are the dict's (key, value) pairs in insertion order, or the one
\* callable / (callable, opts) tuple.  A value is a callable (tuple = FALSE)
\* or a (callable, opts) tuple.
Val(isTuple, opts, async) == [tuple |-> isTuple, opts |-> opts, async |-> async]
Item(key, val) == [key |-> key, val |-> val]

assert_callable(c, is_async) ==
    IF is_async THEN iscoroutinefunction(c) ELSE ~iscoroutinefunction(c)

assert_iter(i, is_async) == i.opts \in OnErrOpts /\ assert_callable(i, is_async)

\* the key a single callable / tuple is registered under
SingleKey == "Exception"

\* the registry sanitize_on_exception returns
sanitize_dict(arg) ==
    CASE arg.shape = "none" -> << >>
      [] arg.shape = "dict" -> arg.items
      [] OTHER              -> << Item(SingleKey, arg.items[1].val) >>

\* TRUE when no assert of sanitize_on_exception fails
sanitize_ok(arg, is_async) ==
    CASE arg.shape = "none" -> TRUE
      [] arg.shape = "dict" ->
            \A i \in 1..Len(arg.items) :
                IF arg.items[i].val.tuple
                THEN assert_iter(arg.items[i].val, is_async)
                ELSE assert_callable(arg.items[i].val, is_async)
      [] arg.shape = "callable" -> assert_callable(arg.items[1].val, is_async)
      [] OTHER -> assert_iter(arg.items[1].val, is_async)

unpack_callback(cb) == IF cb.tuple THEN cb.opts ELSE DEFAULT_ONEX_OPTS

\* the option is ignored: every callback is skipped on the last try
should_skip_cb_IgnoreOption(opts, last_try) == last_try

should_skip_cb(opts, last_try) == last_try /\ ~(RUN_ON_LAST_TRY \in opts)

\* BREAK_OUT is ignored: the scan always goes on
breaks_out_Never(opts) == FALSE

\* `if opts & OnErrOpts.BREAK_OUT: break`
breaks_out(opts) == BREAK_OUT \in opts

-----------------------------------------------------------------------------
(* on_exhaustion: False, True, or a callable *)

IsBool(x) == x \in {"False", "True"}
IsCoroutineFn(x) == x = "async_fn"
\* the assert is missing: any on_exhaustion is accepted
on_exhaustion_ok_Unchecked(x) == TRUE

\* retry(): isinstance(on_exhaustion, bool) or not iscoroutinefunction(on_exhaustion)
on_exhaustion_ok(x) == IsBool(x) \/ ~IsCoroutineFn(x)

\* on_exhaustion(exception): a coroutine function returns an un-awaited coroutine
Fallback(x, exc) ==
    [kind |-> IF IsCoroutineFn(x) THEN "coroutine" ELSE "fallback",
     type |-> exc.type, id |-> exc.id]

-----------------------------------------------------------------------------
(* handle_delay *)

RECURSIVE Pow2(_)
Pow2(n) == IF n <= 0 THEN 1 ELSE 2 * Pow2(n - 1)

\* retry_logic: attempts = retries + 1
Attempts(retries) == retries + 1

\* off by one: one failure more than the budget before giving up
BudgetSpent_OffByOne(cnt, retries, attempts) == retries # -1 /\ cnt > attempts

\* handle_delay: `if retries != -1 and count >= attempts` (count already incremented)
BudgetSpent(cnt, retries, attempts) == retries # -1 /\ cnt >= attempts

\* the loop never stops by itself
LoopCond_Always(retries, cnt, attempts) == TRUE

\* the loop stops one attempt short of the budget
LoopCond_Short(retries, cnt, attempts) == retries = -1 \/ cnt < attempts - 1

\* retry_logic: `while retries == -1 or count < attempts`
LoopCond(retries, cnt, attempts) == retries = -1 \/ cnt < attempts

\* no attempt is taken for the last one
IsLastTry_Never(cnt, retries) == FALSE

\* retry_logic: the last_try argument of should_skip_cb, `count == retries`
IsLastTry(cnt, retries) == cnt = retries

\* a scalar jitter deviates by up to twice its magnitude
JitterDraws_Double(jitter) ==
    IF ~JitterTruthy(jitter) THEN {0}
    ELSE IF jitter.tuple THEN Min(jitter.a, jitter.b) .. Max(jitter.a, jitter.b)
    ELSE (-2 * Abs(jitter.a)) .. (2 * Abs(jitter.a))

\* the values random.uniform(*jitter) / jitter * random.uniform(-1, 1) can take
JitterDraws(jitter) ==
    IF ~JitterTruthy(jitter) THEN {0}
    ELSE IF jitter.tuple THEN Min(jitter.a, jitter.b) .. Max(jitter.a, jitter.b)
    ELSE (-Abs(jitter.a)) .. Abs(jitter.a)

\* the exponent is the failure count, not the count less one
Backoff_PowCount(cnt, backoff, exponential_backoff, max_backoff, d) ==
    LET scaled == IF exponential_backoff THEN backoff * Pow2(cnt) ELSE backoff
        jittered == scaled + d
    IN  IF max_backoff # 0 THEN Min(jittered, max_backoff) ELSE jittered

\* handle_delay's current_backoff for the cnt-th caught failure and jitter draw d
Backoff(cnt, backoff, exponential_backoff, max_backoff, d) ==
    LET scaled == IF exponential_backoff THEN backoff * Pow2(cnt - 1) ELSE backoff
        jittered == scaled + d
    IN  IF max_backoff # 0 THEN Min(jittered, max_backoff) ELSE jittered

\* on_exhaustion is ignored: the failure is always re-raised
Resolve_AlwaysRaise(on_exhaustion, exc) == Raise(exc)

\* any truthy on_exhaustion is taken for True: the fallback is never called
Resolve_NoFallback(on_exhaustion, exc) ==
    IF on_exhaustion # "False" THEN Return(exc) ELSE Raise(exc)

\* what handle_delay does once the budget is spent: the value returned as
\* return_val, or the exception raised
Resolve(on_exhaustion, exc) ==
    IF on_exhaustion # "False"
    THEN IF on_exhaustion = "True" THEN Return(exc)
         ELSE Return(Fallback(on_exhaustion, exc))
    ELSE Raise(exc)

-----------------------------------------------------------------------------
(* Policy construction *)

is_async == cfg.opAsync

Reject ==
    /\ pc' = "config_error"
    /\ outcome' = Raise(AssertionError)
    /\ UNCHANGED onex

Accept ==
    /\ pc' = "ready"
    /\ onex' = sanitize_dict(cfg.on_exception)
    /\ UNCHANGED outcome

\* retry(...)(f): validate_backoff, the on_exhaustion assert, then decorator(f)
BuildDecorator ==
    /\ UNCHANGED <<other, legacy>>
    /\ pc = "new"
    /\ cfg.path = "retry"
    /\ IF /\ validate_backoff(cfg.backoff, cfg.exponential_backoff,
                              cfg.max_backoff, cfg.jitter)
          /\ on_exhaustion_ok(cfg.on_exhaustion)
          /\ sanitize_ok(cfg.on_exception, is_async)
       THEN Accept
       ELSE Reject
    /\ UNCHANGED <<cfg, count, e, scan, current_backoff, return_val,
                   calls, results, trace>>

\* Retry(...): sanitize_on_exception(on_exception, False), BaseRetry.__init__
BuildRetry ==
    /\ UNCHANGED <<other, legacy>>
    /\ pc = "new"
    /\ cfg.path = "Retry"
    /\ IF /\ sanitize_ok(cfg.on_exception, FALSE)
          /\ validate_backoff(cfg.backoff, cfg.exponential_backoff,
                              cfg.max_backoff, cfg.jitter)
       THEN Accept
       ELSE Reject
    /\ UNCHANGED <<cfg, count, e, scan, current_backoff, return_val,
                   calls, results, trace>>

\* RetryAsync(...): sanitize_on_exception(on_exception, True), BaseRetry.__init__
BuildRetryAsync ==
    /\ UNCHANGED <<other, legacy>>
    /\ pc = "new"
    /\ cfg.path = "RetryAsync"
    /\ IF /\ sanitize_ok(cfg.on_exception, TRUE)
          /\ validate_backoff(cfg.backoff, cfg.exponential_backoff,
                              cfg.max_backoff, cfg.jitter)
       THEN Accept
       ELSE Reject
    /\ UNCHANGED <<cfg, count, e, scan, current_backoff, return_val,
                   calls, results, trace>>

-----------------------------------------------------------------------------
(* The attempt loop: retry_logic and retry_logic_async *)

attempts == Attempts(cfg.retries)

\* where control goes when the while condition is evaluated with count = cnt
LoopPc(cnt) ==
    IF LoopCond(cfg.retries, cnt, attempts) THEN "attempting" ELSE "exceeded"

\* where the for loop over onex goes from position i
ScanPc(i) == IF i > Len(onex) THEN "delay" ELSE "dispatching"

\* wrapper / async_wrapper / __call__: count = 0, attempts = retries + 1
Invoke ==
    /\ UNCHANGED <<other, legacy>>
    /\ pc = "ready"
    /\ count' = 0
    /\ pc' = LoopPc(0)
    /\ UNCHANGED <<cfg, onex, e, scan, current_backoff, return_val,
                   calls, results, trace, outcome>>

\* a bare `except BaseException`: every failure is caught
Caught_All(t) == TRUE

\* `except expected_exception as e`: the except clause catches a failure of type t
Caught(t) == Qualifies(t, cfg.expected_exception)

\* what one call of f() may do
OpResults == {"ok", "KeyError", "ValueError", "KeyboardInterrupt"}

\* one pass through `try: return f()` in which the call does r
Call(r) ==
    /\ UNCHANGED <<other, legacy>>
    /\ pc = "attempting"
    /\ cfg.retries = -1 => calls < MaxCalls
    /\ calls' = calls + 1
    /\ results' = Append(results, r)
    /\ trace' = Append(trace, Event("call", calls + 1, 0))
    /\ IF r = "ok"
       THEN /\ outcome' = Return(Ok(calls + 1))
            /\ pc' = "done"
            /\ UNCHANGED <<e, scan>>
       ELSE IF Caught(r)
       THEN /\ e' = Exc(r, calls + 1)
            /\ scan' = 1
            /\ pc' = ScanPc(1)
            /\ UNCHANGED outcome
       ELSE /\ outcome' = Raise(Exc(r, calls + 1))
            /\ pc' = "done"
            /\ UNCHANGED <<e, scan>>
    /\ UNCHANGED <<cfg, onex, count, current_backoff, return_val>>

\* `return f()` / `return await f()` and the except clause
Attempt == \E r \in OpResults : Call(r)

\* one iteration of `for error_type in onex`
Dispatch ==
    /\ UNCHANGED <<other, legacy>>
    /\ pc = "dispatching"
    /\ LET entry == onex[scan]
           opts == unpack_callback(entry.val)
       IN  IF ~isinstance(e.type, entry.key)
           THEN /\ scan' = scan + 1
                /\ pc' = ScanPc(scan + 1)
                /\ UNCHANGED trace
           ELSE IF should_skip_cb(opts, IsLastTry(count, cfg.retries))
           THEN /\ scan' = scan + 1
                /\ pc' = ScanPc(scan + 1)
                /\ UNCHANGED trace
           ELSE /\ trace' = Append(trace, Event("cb", e.id, scan))
                /\ IF breaks_out(opts)
                   THEN /\ pc' = "delay"
                        /\ UNCHANGED scan
                   ELSE /\ scan' = scan + 1
                        /\ pc' = ScanPc(scan + 1)
    /\ UNCHANGED <<cfg, onex, count, e, current_backoff, return_val,
                   calls, results, outcome>>

\* the delay is slept even when it is zero
Suspends_Always(delay) == TRUE

\* `if current_backoff:` before time.sleep / asyncio.sleep
Suspends(delay) == delay # 0

\* handle_delay and the unpacking of its result.  When handle_delay raises,
\* its local count has been incremented and nothing is assigned in the
\* caller; count then records handle_delay's own counter.
HandleDelay ==
    /\ UNCHANGED <<other, legacy>>
    /\ pc = "delay"
    /\ count' = count + 1
    /\ IF BudgetSpent(count + 1, cfg.retries, attempts)
       THEN LET r == Resolve(cfg.on_exhaustion, e)
            IN  IF r.how = "raise"
                THEN /\ trace' = Append(trace, Event("warn", count + 1, e.id))
                     /\ outcome' = r
                     /\ pc' = "done"
                     /\ UNCHANGED <<current_backoff, return_val>>
                ELSE /\ trace' = trace \o
                          << Event("warn", count + 1, e.id) >> \o
                          (IF IsBool(cfg.on_exhaustion) THEN << >>
                           ELSE << Event("fallback", e.id, 0) >>)
                     /\ current_backoff' = 0
                     /\ return_val' = r.val
                     /\ pc' = IF Suspends(0) THEN "sleeping" ELSE LoopPc(count + 1)
                     /\ UNCHANGED outcome
       ELSE \E d \in JitterDraws(cfg.jitter) :
                /\ trace' = Append(trace, Event("warn", count + 1, e.id))
                /\ current_backoff' = Backoff(count + 1, cfg.backoff,
                                        cfg.exponential_backoff, cfg.max_backoff, d)
                /\ return_val' = None
                /\ pc' = IF Suspends(current_backoff') THEN "sleeping"
                         ELSE LoopPc(count + 1)
                /\ UNCHANGED outcome
    /\ UNCHANGED <<cfg, onex, e, scan, calls, results>>

\* time.sleep(current_backoff) / await asyncio.sleep(current_backoff)
Sleep ==
    /\ UNCHANGED <<other, legacy>>
    /\ pc = "sleeping"
    /\ trace' = Append(trace, Event("sleep", count, 0))
    /\ pc' = LoopPc(count)
    /\ UNCHANGED <<cfg, onex, count, e, scan, current_backoff, return_val,
                   calls, results, outcome>>

\* after the loop: attempts_exceeded(f, count); return return_val
Exceeded ==
    /\ UNCHANGED <<other, legacy>>
    /\ pc = "exceeded"
    /\ trace' = Append(trace, Event("error", count, 0))
    /\ outcome' = IF return_val = Unbound THEN Raise(UnboundLocalError)
                  ELSE Return(return_val)
    /\ pc' = "done"
    /\ UNCHANGED <<cfg, onex, count, e, scan, current_backoff, return_val,
                   calls, results>>

-----------------------------------------------------------------------------
(* Failures raised by the callbacks and the fallback, and cancellation *)

CbExc(t, i)       == [kind |-> "cb_exc",       type |-> t, id |-> i]
FallbackExc(t, i) == [kind |-> "fallback_exc", type |-> t, id |-> i]
Cancelled(i)      == [kind |-> "cancelled",    type |-> "CancelledError", id |-> i]

\* the whole loop body is guarded by the try
InTryBody_All(where) == TRUE

\* the steps that run inside `try:`; only a failure raised there is matched
\* against `except expected_exception`
InTryBody(where) == where = "attempting"

\* the except clause also catches what its own block raises
RaisedInLoop_Retried(x) ==
    IF Caught(x.type)
    THEN /\ e' = x
         /\ scan' = 1
         /\ pc' = ScanPc(1)
         /\ UNCHANGED outcome
    ELSE /\ outcome' = Raise(x)
         /\ pc' = "done"
         /\ UNCHANGED <<e, scan>>

\* a failure x raised by a step of the loop other than f()
RaisedInLoop(x) ==
    IF InTryBody(pc) /\ Caught(x.type)
    THEN /\ e' = x
         /\ scan' = 1
         /\ pc' = ScanPc(1)
         /\ UNCHANGED outcome
    ELSE /\ outcome' = Raise(x)
         /\ pc' = "done"
         /\ UNCHANGED <<e, scan>>

\* `for` has reached an entry whose callback is invoked: cb() / await cb()
CallsCallback ==
    /\ pc = "dispatching"
    /\ isinstance(e.type, onex[scan].key)
    /\ ~should_skip_cb(unpack_callback(onex[scan].val), IsLastTry(count, cfg.retries))

\* what a callback or a fallback may raise
HandlerFailures == {"KeyError", "KeyboardInterrupt"}

\* cb() / await cb() raises
CallbackRaises ==
    /\ UNCHANGED <<other, legacy>>
    /\ CallsCallback
    /\ \E t \in HandlerFailures :
        /\ trace' = trace \o << Event("cb", e.id, scan), Event("cb_raise", e.id, scan) >>
        /\ RaisedInLoop(CbExc(t, e.id))
    /\ UNCHANGED <<cfg, onex, count, current_backoff, return_val, calls, results>>

\* handle_delay: on_exhaustion(exception) raises.  Calling a coroutine
\* function runs none of its body, so only a synchronous fallback can raise.
FallbackRaises ==
    /\ UNCHANGED <<other, legacy>>
    /\ pc = "delay"
    /\ BudgetSpent(count + 1, cfg.retries, attempts)
    /\ ~IsBool(cfg.on_exhaustion) /\ ~IsCoroutineFn(cfg.on_exhaustion)
    /\ count' = count + 1
    /\ \E t \in HandlerFailures :
        /\ trace' = trace \o << Event("warn", count + 1, e.id),
                                Event("fallback", e.id, 0),
                                Event("fallback_raise", e.id, 0) >>
        /\ RaisedInLoop(FallbackExc(t, e.id))
    /\ UNCHANGED <<cfg, onex, current_backoff, return_val, calls, results>>

\* every step of the loop is a suspension point
Awaits_Anywhere == {"attempting", "dispatching", "delay", "sleeping", "exceeded"}

\* the steps of retry_logic_async that await: await f(), await cb(),
\* await asyncio.sleep(current_backoff)
Awaits == {"attempting", "dispatching", "sleeping"}

\* the task running retry_logic_async is cancelled: CancelledError is raised
\* at the await the task is suspended in
Cancel ==
    /\ UNCHANGED <<other, legacy>>
    /\ is_async
    /\ pc \in Awaits
    /\ CASE pc = "attempting" -> Call("CancelledError")
         [] pc = "dispatching" ->
                /\ CallsCallback
                /\ trace' = trace \o << Event("cb", e.id, scan),
                                        Event("cancel", count, scan) >>
                /\ RaisedInLoop(Cancelled(e.id))
                /\ UNCHANGED <<cfg, onex, count, current_backoff, return_val,
                               calls, results>>
         [] OTHER ->
                /\ trace' = Append(trace, Event("cancel", count, 0))
                /\ RaisedInLoop(Cancelled(calls))
                /\ UNCHANGED <<cfg, onex, count, current_backoff, return_val,
                               calls, results>>

-----------------------------------------------------------------------------
(* The arguments explored *)

\* largest number of entries of an on_exception dict
MaxEntries == 2

NoCallbacks == [shape |-> "none", items |-> << >>]
OneCallable(async) ==
    [shape |-> "callable", items |-> << Item("-", Val(FALSE, {}, async)) >>]
OneTuple(opts, async) ==
    [shape |-> "tuple", items |-> << Item("-", Val(TRUE, opts, async)) >>]

DictKeys == {"Exception", "LookupError", "KeyError"}
\* a bare callable, or a (callable, opts) tuple with some option set
DictVals(async) ==
    {Val(FALSE, {}, async)} \cup {Val(TRUE, o, async) : o \in OnErrOpts \ {{}}}

\* dicts of up to MaxEntries entries, keys distinct, in every insertion order
Dicts(async) ==
    LET entries == {Item(k, v) : k \in DictKeys, v \in DictVals(async)}
        seqs == UNION {[1..n -> entries] : n \in 0..MaxEntries}
    IN  {[shape |-> "dict", items |-> s] : s \in
            {q \in seqs : \A i, j \in 1..Len(q) : i # j => q[i].key # q[j].key}}

OnExceptionArgs(async) ==
    {NoCallbacks, OneCallable(async)}
        \cup {OneTuple(o, async) : o \in OnErrOpts}
        \cup Dicts(async)

\* the construction path and the mode of the wrapped function
PathModes ==
    {<<"retry", FALSE>>, <<"retry", TRUE>>, <<"Retry", FALSE>>, <<"RetryAsync", TRUE>>}

ExpectedChoices == {{"BaseException"}, {"Exception"}, {"LookupError"}}
ExhaustionChoices == {"False", "True", "sync_fn", "async_fn"}

Numeric(b, x, m, j) ==
    [backoff |-> b, exponential_backoff |-> x, max_backoff |-> m, jitter |-> j]

Config(pm, ex, r, oe, num, cb) ==
    [path |-> pm[1], opAsync |-> pm[2], expected_exception |-> ex, retries |-> r,
     backoff |-> num.backoff, exponential_backoff |-> num.exponential_backoff,
     on_exhaustion |-> oe, jitter |-> num.jitter, max_backoff |-> num.max_backoff,
     on_exception |-> cb]

ConfigSet(pms, exs, rs, oes, nums, cbs) ==
    {Config(pm, ex, r, oe, num, cb) :
        pm \in pms, ex \in exs, r \in rs, oe \in oes, num \in nums, cb \in cbs}

\* no second invocation yet
NoFrame ==
    [pc |-> "idle", count |-> 0, e |-> None, scan |-> 0, current_backoff |-> 0,
     return_val |-> Unbound, calls |-> 0, results |-> << >>, outcome |-> Pending]

\* the legacy decorator is not used
NoLegacy == [pc |-> "unused"]

InitWith(configs) ==
    /\ other = NoFrame
    /\ legacy = NoLegacy
    /\ cfg \in configs
    /\ onex = << >>
    /\ pc = "new"
    /\ count = 0
    /\ e = None
    /\ scan = 0
    /\ current_backoff = 0
    /\ return_val = Unbound
    /\ calls = 0
    /\ results = << >>
    /\ trace = << >>
    /\ outcome = Pending

Next ==
    \/ BuildDecorator
    \/ BuildRetry
    \/ BuildRetryAsync
    \/ Invoke
    \/ Attempt
    \/ Dispatch
    \/ HandleDelay
    \/ Sleep
    \/ Exceeded

\* the loop under every budget, disposition, construction path and
\* expected_exception, with the single-callback shapes of on_exception
EngineConfigs ==
    ConfigSet(PathModes, ExpectedChoices, -1..MaxRetries, ExhaustionChoices,
              {Numeric(0, FALSE, 0, Num(0)), Numeric(1, FALSE, 0, Num(0))},
              {NoCallbacks} \cup
              {OneCallable(a) : a \in BOOLEAN} \cup
              {OneTuple({RUN_ON_LAST_TRY}, a) : a \in BOOLEAN})

\* every shape of on_exception, for a synchronous function that raises
\* KeyError (is-a every dict key), ValueError (is-a Exception only) or a
\* failure expected_exception does not catch
DispatchConfigs ==
    ConfigSet({<<"retry", FALSE>>}, {{"Exception"}}, -1..MaxRetries, {"False"},
              {Numeric(0, FALSE, 0, Num(0))},
              OnExceptionArgs(FALSE))

\* every backoff / jitter / max_backoff combination, valid or not
Numerics ==
    {Numeric(b, x, m, j) :
        b \in (-1)..MaxBackoff, x \in BOOLEAN, m \in (-1)..(MaxBackoff + 1),
        j \in {Num(n) : n \in (-MaxBackoff)..MaxBackoff} \cup
              {Pair(lo, hi) : lo, hi \in (-MaxBackoff)..MaxBackoff}}

BackoffConfigs ==
    ConfigSet({<<"retry", FALSE>>, <<"Retry", FALSE>>, <<"RetryAsync", TRUE>>},
              {{"LookupError"}}, {-1, MaxRetries}, {"False"}, Numerics, {NoCallbacks})

Configs == EngineConfigs \cup DispatchConfigs \cup BackoffConfigs

Init == InitWith(Configs)
Spec == Init /\ [][Next]_vars

\* a dict with a superclass entry before a subclass entry
TwoEntries(async) ==
    [shape |-> "dict",
     items |-> << Item("LookupError", Val(FALSE, {}, async)),
                  Item("KeyError", Val(TRUE, {RUN_ON_LAST_TRY}, async)) >>]

\* the loop with callbacks and fallbacks that may raise, and with
\* cancellation of the task in the asynchronous mode
EnvConfigs ==
    EngineConfigs \cup
    ConfigSet(PathModes, {{"BaseException"}}, {1}, {"sync_fn"},
              {Numeric(1, FALSE, 0, Num(0))}, {TwoEntries(a) : a \in BOOLEAN})

InitEnv == InitWith(EnvConfigs)

NextEnv ==
    \/ BuildDecorator
    \/ BuildRetry
    \/ BuildRetryAsync
    \/ Invoke
    \/ Attempt
    \/ Dispatch
    \/ HandleDelay
    \/ Sleep
    \/ Exceeded
    \/ CallbackRaises
    \/ FallbackRaises
    \/ Cancel

SpecEnv == InitEnv /\ [][NextEnv]_vars

\* every integer retries that construction accepts, below -1 included, in
\* the same environment
AnyRetriesConfigs ==
    ConfigSet(PathModes, {{"BaseException"}}, (-MaxRetries - 1)..MaxRetries,
              ExhaustionChoices, {Numeric(1, FALSE, 0, Num(0))},
              {NoCallbacks} \cup {OneCallable(a) : a \in BOOLEAN})

\* the loop when f(), the callbacks and the sleeps all return: every step of
\* an invocation that has started is eventually taken
FairConfigs ==
    ConfigSet(PathModes, {{"Exception"}, {"LookupError"}}, -1..MaxRetries,
              ExhaustionChoices, {Numeric(1, FALSE, 0, Num(0))},
              {NoCallbacks} \cup {OneCallable(a) : a \in BOOLEAN})

InitFair == InitWith(FairConfigs)
SpecFair ==
    /\ InitFair /\ [][Next]_vars
    /\ WF_vars(Attempt) /\ WF_vars(Dispatch) /\ WF_vars(HandleDelay)
    /\ WF_vars(Sleep) /\ WF_vars(Exceeded)

InitAnyRetries == InitWith(AnyRetriesConfigs)
SpecAnyRetries == InitAnyRetries /\ [][NextEnv]_vars

-----------------------------------------------------------------------------
(* A second invocation of the same decorated function / Retry instance.    *)
(* It shares cfg and onex; count, e, current_backoff and return_val are     *)
(* locals of its own call of retry_logic.                                   *)

\* the attempt counter is kept where the first invocation keeps it
CountOf_Shared(frame) == count

\* `count`, a local variable of retry_logic
CountOf(frame) == frame.count

\* a second call of wrapper / async_wrapper / __call__ on the built policy
OtherInvoke ==
    /\ pc \notin {"new", "config_error"}
    /\ other.pc = "idle"
    /\ other' = [other EXCEPT !.count = 0, !.pc = LoopPc(0)]
    /\ UNCHANGED <<cfg, onex, pc, count, e, scan, current_backoff, return_val,
                   calls, results, trace, outcome, legacy>>

\* `return f()` / `return await f()` and the except clause
OtherAttempt ==
    /\ other.pc = "attempting"
    /\ cfg.retries = -1 => other.calls < MaxCalls
    /\ \E r \in OpResults :
        LET n == other.calls + 1
            called == [other EXCEPT !.calls = n, !.results = Append(@, r)]
        IN  other' =
                IF r = "ok"
                THEN [called EXCEPT !.outcome = Return(Ok(n)), !.pc = "done"]
                ELSE IF Caught(r)
                THEN [called EXCEPT !.e = Exc(r, n), !.scan = 1, !.pc = ScanPc(1)]
                ELSE [called EXCEPT !.outcome = Raise(Exc(r, n)), !.pc = "done"]
    /\ UNCHANGED <<cfg, onex, pc, count, e, scan, current_backoff, return_val,
                   calls, results, trace, outcome, legacy>>

\* one iteration of `for error_type in onex`
OtherDispatch ==
    /\ other.pc = "dispatching"
    /\ LET entry == onex[other.scan]
           opts == unpack_callback(entry.val)
           next == other.scan + 1
           ran == /\ isinstance(other.e.type, entry.key)
                  /\ ~should_skip_cb(opts, IsLastTry(CountOf(other), cfg.retries))
       IN  other' =
                IF ran /\ breaks_out(opts)
                THEN [other EXCEPT !.pc = "delay"]
                ELSE [other EXCEPT !.scan = next, !.pc = ScanPc(next)]
    /\ UNCHANGED <<cfg, onex, pc, count, e, scan, current_backoff, return_val,
                   calls, results, trace, outcome, legacy>>

\* handle_delay and the unpacking of its result
OtherHandleDelay ==
    /\ other.pc = "delay"
    /\ LET cnt == CountOf(other) + 1
       IN  IF BudgetSpent(cnt, cfg.retries, attempts)
           THEN LET r == Resolve(cfg.on_exhaustion, other.e)
                IN  other' =
                        IF r.how = "raise"
                        THEN [other EXCEPT !.count = cnt, !.outcome = r, !.pc = "done"]
                        ELSE [other EXCEPT
                                !.count = cnt, !.current_backoff = 0,
                                !.return_val = r.val,
                                !.pc = IF Suspends(0) THEN "sleeping" ELSE LoopPc(cnt)]
           ELSE \E d \in JitterDraws(cfg.jitter) :
                LET delay == Backoff(cnt, cfg.backoff, cfg.exponential_backoff,
                                     cfg.max_backoff, d)
                IN  other' = [other EXCEPT
                                !.count = cnt, !.current_backoff = delay,
                                !.return_val = None,
                                !.pc = IF Suspends(delay) THEN "sleeping"
                                       ELSE LoopPc(cnt)]
    /\ UNCHANGED <<cfg, onex, pc, count, e, scan, current_backoff, return_val,
                   calls, results, trace, outcome, legacy>>

\* time.sleep(current_backoff) / await asyncio.sleep(current_backoff)
OtherSleep ==
    /\ other.pc = "sleeping"
    /\ other' = [other EXCEPT !.pc = LoopPc(CountOf(other))]
    /\ UNCHANGED <<cfg, onex, pc, count, e, scan, current_backoff, return_val,
                   calls, results, trace, outcome, legacy>>

\* after the loop: attempts_exceeded(f, count); return return_val
OtherExceeded ==
    /\ other.pc = "exceeded"
    /\ other' = [other EXCEPT
                    !.outcome = IF other.return_val = Unbound
                                THEN Raise(UnboundLocalError)
                                ELSE Return(other.return_val),
                    !.pc = "done"]
    /\ UNCHANGED <<cfg, onex, pc, count, e, scan, current_backoff, return_val,
                   calls, results, trace, outcome, legacy>>

\* two invocations of one policy, under both budgets and dispositions
ConcConfigs ==
    ConfigSet({<<"retry", FALSE>>, <<"Retry", FALSE>>, <<"RetryAsync", TRUE>>},
              {{"LookupError"}}, {-1, 1}, {"False", "sync_fn"},
              {Numeric(1, FALSE, 0, Num(0))},
              {OneTuple({RUN_ON_LAST_TRY}, a) : a \in BOOLEAN})

InitConc == InitWith(ConcConfigs)

NextConc ==
    \/ BuildDecorator
    \/ BuildRetry
    \/ BuildRetryAsync
    \/ Invoke
    \/ Attempt
    \/ Dispatch
    \/ HandleDelay
    \/ Sleep
    \/ Exceeded
    \/ OtherInvoke
    \/ OtherAttempt
    \/ OtherDispatch
    \/ OtherHandleDelay
    \/ OtherSleep
    \/ OtherExceeded

SpecConc == InitConc /\ [][NextConc]_vars

-----------------------------------------------------------------------------
(* retry_decorator/retry_decorator.py: the legacy decorator.  Durations are *)
(* in tenths of timeout_secs' unit, so that mdelay * 0.10 is an integer.    *)

\* largest tries explored
MaxTries == 3

\* the values of callback_by_exception's entries: a callable, (callable,
\* should_break_out), (callable, (should_break_out, run_one_last_time)), or a
\* tuple of another length
LegacyCb(shape, brk, last) == [shape |-> shape, brk |-> brk, last |-> last]
LegacyCbs ==
    {LegacyCb("callable", FALSE, TRUE), LegacyCb("triple", FALSE, TRUE)}
        \cup {LegacyCb("pair", b, TRUE) : b \in BOOLEAN}
        \cup {LegacyCb("nested", b, l) : b, l \in BOOLEAN}

\* _is_valid_iter(i): TRUE for a list/tuple of 2, "ValueError" for another length
is_valid_iter(v) ==
    IF v.shape = "callable" THEN "False"
    ELSE IF v.shape = "triple" THEN "ValueError"
    ELSE "True"

\* validate_tries(tries) does not raise
validate_tries(tries) == tries >= 1

\* sanitize_cbe(cbe) does not raise
sanitize_cbe_ok(cbe) ==
    \/ cbe.kind \in {"none", "dict"}
    \/ cbe.kind = "single" /\ cbe.items[1].val.shape \in {"callable", "pair", "nested"}

\* sanitize_cbe(cbe): the registry, in iteration order
sanitize_cbe(cbe) ==
    IF cbe.kind = "single" THEN << Item("Exception", cbe.items[1].val) >>
    ELSE cbe.items

\* the loop runs one time more
LegacyLoopCond_Zero(mtries) == mtries > 0

\* `while mtries > 1`
LegacyLoopCond(mtries) == mtries > 1

LegacyLoopPc(mtries) == IF LegacyLoopCond(mtries) THEN "attempting" ELSE "last"
LegacyScanPc(i) == IF i > Len(legacy.reg) THEN "sleeping" ELSE "dispatching"

\* random.uniform(mdelay - half_interval, mdelay + half_interval)
LegacyDelays(mdelay) ==
    LET half_interval == mdelay \div 10
    IN  (mdelay - half_interval)..(mdelay + half_interval)

\* retry(exc, tries, timeout_secs, logger, callback_by_exception) /
\* RetryHandler.__init__: validate_tries, then sanitize_cbe
LegacyBuild ==
    /\ legacy.pc = "new"
    /\ legacy' =
        IF ~validate_tries(legacy.tries)
        THEN [legacy EXCEPT !.pc = "config_error",
                            !.outcome = Raise(Exc("ValueError", 0))]
        ELSE IF ~sanitize_cbe_ok(legacy.cbe)
        THEN [legacy EXCEPT !.pc = "config_error",
                            !.outcome = Raise(Exc("TypeError", 0))]
        ELSE [legacy EXCEPT !.pc = "ready", !.reg = sanitize_cbe(legacy.cbe)]
    /\ UNCHANGED <<cfg, onex, pc, count, e, scan, current_backoff, return_val,
                   calls, results, trace, outcome, other>>

\* _retry_logic: mtries, mdelay = tries, timeout_secs; run_one_last_time = True
LegacyInvoke ==
    /\ legacy.pc = "ready"
    /\ legacy' = [legacy EXCEPT !.mtries = legacy.tries,
                                !.mdelay = legacy.timeout_secs,
                                !.run_one_last_time = TRUE,
                                !.pc = LegacyLoopPc(legacy.tries)]
    /\ UNCHANGED <<cfg, onex, pc, count, e, scan, current_backoff, return_val,
                   calls, results, trace, outcome, other>>

\* `try: return f()` / `except exc as e`
LegacyAttempt ==
    /\ legacy.pc = "attempting"
    /\ \E r \in OpResults :
        LET n == legacy.calls + 1
            called == [legacy EXCEPT !.calls = n, !.results = Append(@, r)]
        IN  legacy' =
                IF r = "ok"
                THEN [called EXCEPT !.outcome = Return(Ok(n)), !.pc = "done"]
                ELSE IF Qualifies(r, legacy.exc)
                THEN [called EXCEPT !.e = Exc(r, n), !.scan = 1,
                                    !.pc = LegacyScanPc(1)]
                ELSE [called EXCEPT !.outcome = Raise(Exc(r, n)), !.pc = "done"]
    /\ UNCHANGED <<cfg, onex, pc, count, e, scan, current_backoff, return_val,
                   calls, results, trace, outcome, other>>

\* one iteration of `for error_type in callback_by_exception`
LegacyDispatch ==
    /\ legacy.pc = "dispatching"
    /\ LET entry == legacy.reg[legacy.scan]
           v == entry.val
           next == legacy.scan + 1
       IN  legacy' =
            IF ~isinstance(legacy.e.type, entry.key)
            THEN [legacy EXCEPT !.scan = next, !.pc = LegacyScanPc(next)]
            ELSE IF is_valid_iter(v) = "ValueError"
            THEN [legacy EXCEPT !.run_one_last_time = TRUE,
                                !.outcome = Raise(Exc("ValueError", 0)),
                                !.pc = "done"]
            ELSE LET should_break_out == is_valid_iter(v) = "True" /\ v.brk
                     last == IF v.shape = "nested" THEN v.last ELSE TRUE
                     ran == [legacy EXCEPT !.run_one_last_time = last,
                                           !.cbs = @ + 1]
                 IN  IF should_break_out
                     THEN [ran EXCEPT !.pc = "sleeping"]
                     ELSE [ran EXCEPT !.scan = next, !.pc = LegacyScanPc(next)]
    /\ UNCHANGED <<cfg, onex, pc, count, e, scan, current_backoff, return_val,
                   calls, results, trace, outcome, other>>

\* actual_delay, logging_object.exception, time.sleep, mtries -= 1, mdelay *= 2
LegacySleep ==
    /\ legacy.pc = "sleeping"
    /\ \E d \in LegacyDelays(legacy.mdelay) :
        legacy' = [legacy EXCEPT !.actual_delay = d,
                                 !.mtries = @ - 1,
                                 !.mdelay = @ * 2,
                                 !.pc = LegacyLoopPc(legacy.mtries - 1)]
    /\ UNCHANGED <<cfg, onex, pc, count, e, scan, current_backoff, return_val,
                   calls, results, trace, outcome, other>>

\* after the loop: `if run_one_last_time: return f()`, else return None
LegacyLast ==
    /\ legacy.pc = "last"
    /\ IF legacy.run_one_last_time
       THEN \E r \in OpResults :
            LET n == legacy.calls + 1
            IN  legacy' = [legacy EXCEPT
                    !.calls = n, !.results = Append(@, r), !.pc = "done",
                    !.outcome = IF r = "ok" THEN Return(Ok(n)) ELSE Raise(Exc(r, n))]
       ELSE legacy' = [legacy EXCEPT !.outcome = Return(None), !.pc = "done"]
    /\ UNCHANGED <<cfg, onex, pc, count, e, scan, current_backoff, return_val,
                   calls, results, trace, outcome, other>>

LegacyNoCbe == [kind |-> "none", items |-> << >>]
LegacySingle(v) == [kind |-> "single", items |-> << Item("-", v) >>]
LegacyDict(items) == [kind |-> "dict", items |-> items]

\* callback_by_exception: None, a callable or tuple, or a dict of up to two
\* entries with a superclass before its subclass
LegacyCbes ==
    {LegacyNoCbe} \cup {LegacySingle(v) : v \in LegacyCbs}
        \cup {LegacyDict(<< Item(k, v) >>) :
                k \in {"Exception", "KeyError"}, v \in LegacyCbs}
        \cup {LegacyDict(<< Item("LookupError", v), Item("KeyError", w) >>) :
                v \in {LegacyCb("callable", FALSE, TRUE), LegacyCb("nested", TRUE, FALSE)},
                w \in {LegacyCb("callable", FALSE, TRUE), LegacyCb("nested", FALSE, FALSE)}}

\* the state after `retry(...)`'s arguments are chosen
LegacyArgs(exc, tries, timeout_secs, cbe) ==
    [pc |-> "new", exc |-> exc, tries |-> tries, timeout_secs |-> timeout_secs,
     cbe |-> cbe, reg |-> << >>, mtries |-> 0, mdelay |-> 0,
     run_one_last_time |-> TRUE, e |-> None, scan |-> 0, actual_delay |-> 0,
     calls |-> 0, cbs |-> 0, results |-> << >>, outcome |-> Pending]

InitLegacy ==
    /\ legacy \in {LegacyArgs(x, t, s, c) :
                    x \in {{"Exception"}, {"LookupError"}}, t \in 0..MaxTries,
                    s \in {0, 10}, c \in LegacyCbes}
    /\ other = NoFrame
    /\ cfg = Config(<<"retry", FALSE>>, {"Exception"}, 0, "False",
                    Numeric(0, FALSE, 0, Num(0)), NoCallbacks)
    /\ onex = << >>
    /\ pc = "new"
    /\ count = 0
    /\ e = None
    /\ scan = 0
    /\ current_backoff = 0
    /\ return_val = Unbound
    /\ calls = 0
    /\ results = << >>
    /\ trace = << >>
    /\ outcome = Pending

NextLegacy ==
    \/ LegacyBuild
    \/ LegacyInvoke
    \/ LegacyAttempt
    \/ LegacyDispatch
    \/ LegacySleep
    \/ LegacyLast

SpecLegacy == InitLegacy /\ [][NextLegacy]_vars

-----------------------------------------------------------------------------
(* Vocabulary of the properties *)

Built == pc \notin {"new", "config_error"}
Done == pc = "done"
Bounded == cfg.retries >= 0

\* the i-th call of f() raised a failure that `except expected_exception` catches
QualifyingAt(i) == results[i] # "ok" /\ Qualifies(results[i], cfg.expected_exception)
\* f() has raised a qualifying failure on every call so far
AllQualifying == \A i \in 1..Len(results) : QualifyingAt(i)
SomeSuccess == \E i \in 1..Len(results) : results[i] = "ok"

Positions(ev) == {p \in 1..Len(trace) : trace[p].ev = ev}
Happened(ev) == Positions(ev) # {}
LastEvent == trace[Len(trace)]
\* the failure object raised by the i-th call
FailureOf(i) == Exc(results[i], i)

-----------------------------------------------------------------------------
(* C1: with a bounded budget retries = n and on_exhaustion = False, an      *)
(* operation that raises a qualifying failure on every call is invoked      *)
(* exactly n + 1 times, and the invocation then raises the failure caught   *)
(* on the last attempt: it never returns a value and never raises another   *)
(* failure.                                                                 *)
C1_ExactAttemptsThenReraise ==
    (Built /\ Bounded /\ cfg.on_exhaustion = "False" /\ AllQualifying) =>
        /\ calls <= cfg.retries + 1
        /\ pc # "exceeded"
        /\ outcome.how # "return"
        /\ Done => /\ calls = cfg.retries + 1
                   /\ outcome = Raise(FailureOf(calls))

C1_Witness ==
    /\ Done /\ cfg.retries = MaxRetries /\ cfg.on_exhaustion = "False"
    /\ AllQualifying /\ calls = MaxRetries + 1
    /\ outcome = Raise(FailureOf(calls))
    /\ Len(onex) > 0

(* C2: when the operation fails k times with qualifying failures and then   *)
(* succeeds, it was called exactly k + 1 times, the invocation returns that *)
(* call's value, the successful call is the last thing that happened, and   *)
(* the exhaustion resolver never ran; a bounded budget n is not given up    *)
(* before n + 1 failures, so success on call k + 1 is honoured for k <= n.  *)
C2_SuccessReturnsAtOnce ==
    /\ (Len(results) > 0 /\ results[Len(results)] = "ok") =>
        /\ Done
        /\ calls = count + 1
        /\ \A i \in 1..count : QualifyingAt(i)
        /\ outcome = Return(Ok(calls))
        /\ LastEvent = Event("call", calls, 0)
        /\ ~Happened("fallback") /\ ~Happened("error")
        /\ Cardinality(Positions("warn")) = count
        /\ Bounded => count <= cfg.retries
    /\ (Built /\ Bounded /\ (pc = "exceeded" \/ Happened("fallback")))
            => count = cfg.retries + 1

C2_Witness ==
    /\ cfg.retries = -1 /\ count = MaxCalls - 1
    /\ outcome = Return(Ok(MaxCalls))
    /\ Happened("cb") /\ cfg.on_exhaustion = "sync_fn"

(* C3: a failure whose type is not in expected_exception reaches the        *)
(* caller at once: it is the invocation's raised outcome, the call that     *)
(* raised it is the last event (no callback, warning, delay, fallback or    *)
(* error log follows) and no event at all refers to it.                     *)
C3_NonQualifyingPropagates ==
    \A i \in 1..Len(results) :
        (results[i] # "ok" /\ ~Qualifies(results[i], cfg.expected_exception)) =>
            /\ i = calls
            /\ Done
            /\ outcome = Raise(FailureOf(i))
            /\ LastEvent = Event("call", i, 0)
            /\ \A p \in 1..Len(trace) :
                /\ trace[p].ev \in {"cb", "fallback"} => trace[p].id # i
                /\ trace[p].ev = "warn" => trace[p].k # i
            /\ e.id # i
            /\ count < i

C3_Witness ==
    /\ calls = 2 /\ results[2] = "KeyboardInterrupt"
    /\ cfg.expected_exception = {"Exception"}
    /\ Len(onex) > 0 /\ cfg.on_exhaustion = "sync_fn"
    /\ outcome = Raise(Exc("KeyboardInterrupt", 2))

(* C4: with on_exhaustion = True and a bounded budget n, when all n + 1     *)
(* attempts raise qualifying failures the invocation raises nothing: it     *)
(* returns the failure object caught on the last attempt.                   *)
C4_ReturnFailure ==
    (Built /\ Bounded /\ cfg.on_exhaustion = "True" /\ AllQualifying) =>
        /\ outcome.how # "raise"
        /\ ~Happened("fallback")
        /\ Done => /\ calls = cfg.retries + 1
                   /\ outcome = Return(FailureOf(calls))

C4_Witness ==
    /\ Done /\ cfg.retries = MaxRetries /\ cfg.on_exhaustion = "True"
    /\ AllQualifying /\ calls = MaxRetries + 1
    /\ outcome = Return(FailureOf(MaxRetries + 1))

(* C5: with a fallback callable as on_exhaustion and a bounded budget n,    *)
(* the fallback is invoked at most once, only with the failure of attempt   *)
(* n + 1 and only after that attempt, with no attempt after it; when all    *)
(* n + 1 attempts failed the invocation returns what the fallback returned  *)
(* for that failure; the fallback is never invoked when an attempt          *)
(* succeeded.                                                               *)
C5_FallbackOnceWithLastFailure ==
    (Built /\ Bounded /\ ~IsBool(cfg.on_exhaustion)) =>
        /\ Cardinality(Positions("fallback")) <= 1
        /\ \A p \in Positions("fallback") :
            /\ trace[p] = Event("fallback", cfg.retries + 1, 0)
            /\ calls = cfg.retries + 1
            /\ AllQualifying
            /\ \E q \in 1..(p - 1) : trace[q] = Event("call", cfg.retries + 1, 0)
            /\ \A q \in (p + 1)..Len(trace) : trace[q].ev = "error"
        /\ SomeSuccess => ~Happened("fallback")
        /\ (Done /\ AllQualifying) =>
            /\ Cardinality(Positions("fallback")) = 1
            /\ outcome = Return(Fallback(cfg.on_exhaustion, FailureOf(calls)))

C5_Witness ==
    /\ Done /\ cfg.retries = MaxRetries /\ cfg.on_exhaustion = "sync_fn"
    /\ AllQualifying /\ Happened("fallback")
    /\ outcome = Return([kind |-> "fallback", type |-> results[calls],
                         id |-> MaxRetries + 1])

-----------------------------------------------------------------------------
(* Vocabulary of the dispatch properties *)

\* the options of registry entry j
OptsOf(j) == IF onex[j].val.tuple THEN onex[j].val.opts ELSE {}
\* the failure raised by call i is-a the category of entry j
Matches(i, j) == isinstance(results[i], onex[j].key)
\* the callback of entry j was invoked for the failure raised by call i
Invoked(i, j) == \E p \in 1..Len(trace) : trace[p] = Event("cb", i, j)
\* the failure of call i is the one of the final allowed attempt
IsFinal(i) == cfg.retries # -1 /\ i = cfg.retries + 1
\* the scan for the failure raised by call i is over
Dispatched(i) == i <= count \/ (pc = "delay" /\ e.id = i)
\* entry j was reached by the scan for failure i: no earlier entry broke out
Reached(i, j) == \A k \in 1..(j - 1) : ~(Invoked(i, k) /\ BREAK_OUT \in OptsOf(k))
\* the entries whose callbacks ran for failure i, in the order they ran
CbSeq(i) ==
    LET ps == SelectSeq(trace, LAMBDA x : x.ev = "cb" /\ x.id = i)
    IN  [n \in 1..Len(ps) |-> ps[n].k]

\* the claimed scan: from the first entry, in registration order, every
\* matching entry that is not skipped runs, up to the first that ran with BREAK_OUT
RECURSIVE ClaimedScan(_, _)
ClaimedScan(i, j) ==
    IF j > Len(onex) THEN << >>
    ELSE IF ~Matches(i, j) THEN ClaimedScan(i, j + 1)
    ELSE IF IsFinal(i) /\ RUN_ON_LAST_TRY \notin OptsOf(j) THEN ClaimedScan(i, j + 1)
    ELSE IF BREAK_OUT \in OptsOf(j) THEN << j >>
    ELSE << j >> \o ClaimedScan(i, j + 1)

(* C6: for a registry entry that matches the failure and is reached by the  *)
(* scan: on the failure of the final allowed attempt of a bounded budget    *)
(* the callback is invoked iff its options contain RUN_ON_LAST_TRY; on any  *)
(* earlier failure, and on every failure when retries = -1, it is invoked.  *)
C6_RunOnLastTry ==
    Built =>
        \A i \in 1..Len(results) : \A j \in 1..Len(onex) :
            (Dispatched(i) /\ Matches(i, j) /\ Reached(i, j)) =>
                (Invoked(i, j) <=> (IsFinal(i) => RUN_ON_LAST_TRY \in OptsOf(j)))

C6_Witness ==
    /\ Bounded /\ count = cfg.retries + 1 /\ cfg.retries >= 1
    /\ Len(onex) = 2
    /\ RUN_ON_LAST_TRY \in OptsOf(1) /\ RUN_ON_LAST_TRY \notin OptsOf(2)
    /\ Invoked(count, 1) /\ ~Invoked(count, 2) /\ Matches(count, 2)
    /\ Invoked(1, 1) /\ Invoked(1, 2)

(* C7: for every caught failure the callbacks that ran are exactly those of *)
(* the claimed scan, in that order: the scan starts at the first entry for  *)
(* each failure, goes in registration order over every entry the failure    *)
(* is-a, stops after an entry that ran with BREAK_OUT, and goes on past an  *)
(* entry that was skipped, BREAK_OUT or not.  With a superclass registered  *)
(* before its subclass, a failure of the subclass runs both in that order,  *)
(* or only the first when it has BREAK_OUT.                                 *)
C7_RegistrationOrderScan ==
    Built =>
        /\ \A i \in 1..Len(results) :
            /\ Dispatched(i) => CbSeq(i) = ClaimedScan(i, 1)
            /\ \A n \in 1..Len(CbSeq(i)) : Matches(i, CbSeq(i)[n])
        /\ \A p, q \in Positions("cb") :
            (p < q /\ trace[p].id = trace[q].id) => trace[p].k < trace[q].k
        /\ \A i \in 1..Len(results) :
            (/\ Dispatched(i) /\ ~IsFinal(i) /\ Len(onex) = 2
             /\ onex[1].key = "LookupError" /\ onex[2].key = "KeyError"
             /\ results[i] = "KeyError") =>
                CbSeq(i) = IF BREAK_OUT \in OptsOf(1) THEN << 1 >> ELSE << 1, 2 >>

C7_Witness ==
    /\ Bounded /\ count = cfg.retries + 1 /\ cfg.retries >= 1
    /\ Len(onex) = 2
    /\ onex[1].key = "LookupError" /\ onex[2].key = "KeyError"
    /\ OptsOf(1) = {BREAK_OUT} /\ OptsOf(2) = {RUN_ON_LAST_TRY}
    /\ results[1] = "KeyError" /\ results[count] = "KeyError"
    /\ CbSeq(1) = << 1 >> /\ CbSeq(count) = << 2 >>

(* C8: a single callable or (callable, options) pair given as on_exception  *)
(* matches every failure that expected_exception catches: it is invoked for *)
(* every caught failure that is not the one of the final attempt.           *)
C8_SingleCallbackMatchesAnyQualifying ==
    (Built /\ cfg.on_exception.shape \in {"callable", "tuple"}) =>
        \A i \in 1..Len(results) :
            (Dispatched(i) /\ QualifyingAt(i) /\ ~IsFinal(i)) =>
                /\ Matches(i, 1)
                /\ Invoked(i, 1)

-----------------------------------------------------------------------------
(* Vocabulary of the construction properties *)

\* the policy invariants as the specification states them
PolicyInvariants(b, x, m, j) ==
    /\ x => (b > 0 /\ (m # 0 => m > b))
    /\ ~x => (b >= 0 /\ m = 0)
    /\ ~j.tuple => Abs(j.a) <= b
    /\ j.tuple => (Abs(j.a) <= b /\ Abs(j.b) <= b)

CfgPolicyInvariants ==
    PolicyInvariants(cfg.backoff, cfg.exponential_backoff, cfg.max_backoff, cfg.jitter)

(* C9: validate_backoff accepts a (backoff, exponential_backoff,            *)
(* max_backoff, jitter) combination iff it satisfies the policy invariants, *)
(* and on each construction path a violating combination ends construction  *)
(* in a configuration error with the operation never invoked, while a       *)
(* satisfying one is never the reason of a rejection.                       *)
C9_ValidateBackoffIffInvariants ==
    /\ validate_backoff(cfg.backoff, cfg.exponential_backoff,
                        cfg.max_backoff, cfg.jitter) <=> CfgPolicyInvariants
    /\ (pc # "new" /\ ~CfgPolicyInvariants) =>
            /\ pc = "config_error"
            /\ outcome = Raise(AssertionError)
            /\ calls = 0 /\ trace = << >>
    /\ (pc = "config_error" /\ CfgPolicyInvariants) =>
            \/ ~sanitize_ok(cfg.on_exception, cfg.opAsync)
            \/ (cfg.path = "retry" /\ IsCoroutineFn(cfg.on_exhaustion))

C9_Witness ==
    /\ pc = "config_error" /\ cfg.path = "RetryAsync"
    /\ cfg.jitter = Pair(-MaxBackoff, 0) /\ cfg.backoff = MaxBackoff - 1
    /\ ~cfg.exponential_backoff /\ cfg.max_backoff = 0

(* C10 as stated: a policy that construction accepted never has a fallback  *)
(* whose mode differs from the mode of the wrapped operation.               *)
C10_FallbackModeMatchesOperation ==
    (Built /\ ~IsBool(cfg.on_exhaustion)) =>
        (IsCoroutineFn(cfg.on_exhaustion) <=> cfg.opAsync)

(* C10 amended: the retry decorator rejects a coroutine-function fallback   *)
(* whatever the mode of the wrapped operation, so a decorated function      *)
(* never runs with one; a synchronous fallback is never the reason of a     *)
(* rejection, also when the operation is asynchronous.                      *)
C10_DecoratorFallbackIsSync ==
    /\ (cfg.path = "retry" /\ pc # "new" /\ IsCoroutineFn(cfg.on_exhaustion)) =>
            /\ pc = "config_error"
            /\ outcome = Raise(AssertionError)
            /\ calls = 0
    /\ (pc = "config_error" /\ ~IsCoroutineFn(cfg.on_exhaustion)) =>
            \/ ~sanitize_ok(cfg.on_exception, cfg.opAsync)
            \/ ~validate_backoff(cfg.backoff, cfg.exponential_backoff,
                                 cfg.max_backoff, cfg.jitter)

C10_Witness ==
    /\ cfg.path = "retry" /\ cfg.opAsync /\ cfg.on_exhaustion = "sync_fn"
    /\ Done /\ Happened("fallback")
    /\ outcome.how = "return" /\ outcome.val.kind = "fallback"

-----------------------------------------------------------------------------
(* Vocabulary of the backoff properties *)

\* current_backoff holds the delay computed after the count-th caught
\* failure, which did not exhaust the budget
DelayComputed ==
    /\ Built /\ count >= 1 /\ return_val = None
    /\ (cfg.retries = -1 \/ count <= cfg.retries)

\* the jitter draws the specification allows: [-j, +j] or [lo, hi]
ClaimedDraws ==
    IF cfg.jitter.tuple
    THEN Min(cfg.jitter.a, cfg.jitter.b) .. Max(cfg.jitter.a, cfg.jitter.b)
    ELSE (-Abs(cfg.jitter.a)) .. Abs(cfg.jitter.a)

\* the reference backoff after the i-th caught failure, for jitter draw d
ClaimedDelay(i, d) ==
    LET base == IF cfg.exponential_backoff THEN cfg.backoff * 2^(i - 1)
                ELSE cfg.backoff
    IN  IF cfg.max_backoff # 0 THEN Min(base + d, cfg.max_backoff) ELSE base + d

(* C11: the delay computed after the i-th caught failure that does not      *)
(* exhaust the budget is the reference backoff for some jitter draw:        *)
(* backoff, times 2^(i-1) when exponential, plus the draw, capped by        *)
(* max_backoff when set.  With exponential_backoff, no jitter and no cap    *)
(* the delay before attempt k = i + 1 is exactly backoff * 2^(k-2); with    *)
(* max_backoff = m > 0 the delay is at most m.                              *)
C11_DelayIsReferenceBackoff ==
    DelayComputed =>
        /\ \E d \in ClaimedDraws : current_backoff = ClaimedDelay(count, d)
        /\ (cfg.exponential_backoff /\ cfg.jitter = Num(0) /\ cfg.max_backoff = 0)
                => current_backoff = cfg.backoff * 2^((count + 1) - 2)
        /\ cfg.max_backoff > 0 => current_backoff <= cfg.max_backoff

C11_Witness ==
    /\ DelayComputed /\ pc = "sleeping" /\ count = 2
    /\ cfg.exponential_backoff /\ cfg.jitter = Num(0) /\ cfg.max_backoff = 0
    /\ cfg.backoff = 1 /\ current_backoff = 2

(* C12: for every accepted policy, attempt and jitter draw the computed     *)
(* delay is non-negative; without exponential_backoff a jitter range gives  *)
(* delays between backoff + lo and backoff + hi, and a scalar jitter j      *)
(* gives delays between backoff - j and backoff + j.                        *)
C12_DelayNonNegativeAndInRange ==
    DelayComputed =>
        /\ current_backoff >= 0
        /\ (~cfg.exponential_backoff /\ cfg.jitter.tuple) =>
            /\ cfg.backoff + Min(cfg.jitter.a, cfg.jitter.b) <= current_backoff
            /\ current_backoff <= cfg.backoff + Max(cfg.jitter.a, cfg.jitter.b)
        /\ (~cfg.exponential_backoff /\ ~cfg.jitter.tuple) =>
            /\ cfg.backoff - Abs(cfg.jitter.a) <= current_backoff
            /\ current_backoff <= cfg.backoff + Abs(cfg.jitter.a)

C12_Witness ==
    /\ DelayComputed /\ ~cfg.exponential_backoff
    /\ cfg.jitter = Pair(0, 1) /\ cfg.backoff = 1
    /\ current_backoff = 2 /\ pc = "sleeping"

-----------------------------------------------------------------------------
(* Vocabulary of the logging and ordering properties *)

\* the warnings logged for the failure raised by call i
WarningsFor(i) == {p \in Positions("warn") : trace[p].k = i}
\* the budget is bounded and the failure that exhausts it has been handled
Exhausted == Bounded /\ count = cfg.retries + 1

(* C13: the log receives exactly one warning for each caught qualifying     *)
(* failure, carrying the number of failures so far, and an error-level      *)
(* message whenever the attempt budget is exhausted, whatever on_exhaustion *)
(* is (re-raise, return the failure, fallback).                             *)
C13_WarningPerFailureErrorOnExhaustion ==
    Built =>
        /\ \A i \in 1..Len(results) :
            (QualifyingAt(i) /\ Dispatched(i) /\ pc # "delay") =>
                /\ Cardinality(WarningsFor(i)) = 1
                /\ \A p \in WarningsFor(i) : trace[p].id = i
        /\ (Done /\ Exhausted) => Happened("error")

(* C18: the loop enters the callback scan only while the budget is          *)
(* unbounded or not yet reached: the failure that exhausts a bounded budget *)
(* goes straight to the exhaustion resolver, and no on_exception callback   *)
(* is invoked for it.                                                       *)
C18_NoDispatchForFinalFailure ==
    (Built /\ Bounded) =>
        /\ pc = "dispatching" => count < cfg.retries
        /\ \A p \in Positions("cb") : ~IsFinal(trace[p].id)

(* C18, amended: the callback scan runs for every caught failure, the one   *)
(* that exhausts a bounded budget included, and it runs before the          *)
(* exhaustion resolver; for that final failure the callbacks invoked are    *)
(* exactly the reached matching entries whose options contain               *)
(* RUN_ON_LAST_TRY.                                                         *)
C18_FinalFailureDispatchedBeforeResolver ==
    (Built /\ Bounded) =>
        /\ pc = "delay" => e.id = count + 1
        /\ \A p \in Positions("warn") : trace[p].k = trace[p].id
        /\ \A p \in Positions("cb") :
            /\ IsFinal(trace[p].id) => RUN_ON_LAST_TRY \in OptsOf(trace[p].k)
            /\ \A q \in WarningsFor(trace[p].id) \cup Positions("fallback")
                        \cup Positions("error") : p < q
        /\ \A j \in 1..Len(onex) :
            (/\ Exhausted /\ Matches(count, j) /\ Reached(count, j)
             /\ RUN_ON_LAST_TRY \in OptsOf(j)) => Invoked(count, j)

C18_Witness ==
    /\ Done /\ Exhausted /\ cfg.retries = 1
    /\ cfg.on_exhaustion = "sync_fn" /\ Len(onex) = 1
    /\ trace = << Event("call", 1, 0), Event("cb", 1, 1), Event("warn", 1, 1),
                  Event("call", 2, 0), Event("cb", 2, 1), Event("warn", 2, 2),
                  Event("fallback", 2, 0), Event("error", 2, 0) >>

(* C20: within one invocation every qualifying failure that does not        *)
(* exhaust the budget is followed by its callbacks, then exactly one        *)
(* backoff computation, then a suspension iff the computed delay is > 0,    *)
(* then the next attempt; attempt k + 1 never starts before the dispatch    *)
(* and the delay for failure k are over, and nothing is slept after the     *)
(* failure that exhausts the budget.                                        *)
C20_SequentialOrder ==
    Built =>
        /\ pc = "sleeping" => (current_backoff > 0 /\ LastEvent.ev = "warn")
        /\ (pc \in {"attempting", "exceeded"} /\ Len(trace) > 0) =>
            /\ LastEvent.ev = "sleep" => current_backoff > 0
            /\ LastEvent.ev \in {"warn", "fallback"} => current_backoff = 0
        /\ \A p \in 1..Len(trace) :
            /\ trace[p].ev = "call" =>
                IF trace[p].id = 1 THEN p = 1
                ELSE /\ trace[p - 1].ev \in {"warn", "sleep"}
                     /\ trace[p - 1].id = trace[p].id - 1
                     /\ Cardinality(WarningsFor(trace[p].id - 1)) = 1
            /\ trace[p].ev = "cb" =>
                /\ trace[p - 1].ev \in {"call", "cb"}
                /\ trace[p - 1].id = trace[p].id
            /\ trace[p].ev = "warn" =>
                /\ trace[p - 1].ev \in {"call", "cb"}
                /\ trace[p - 1].id = trace[p].k
            /\ trace[p].ev = "sleep" =>
                /\ trace[p - 1] = Event("warn", trace[p].id, trace[p].id)
                /\ ~IsFinal(trace[p].id)

C20_Witness ==
    /\ pc = "attempting" /\ current_backoff = 1 /\ Bounded
    /\ trace = << Event("call", 1, 0), Event("cb", 1, 1), Event("warn", 1, 1),
                  Event("sleep", 1, 0), Event("call", 2, 0), Event("cb", 2, 1),
                  Event("warn", 2, 2), Event("sleep", 2, 0) >>

-----------------------------------------------------------------------------
(* Vocabulary of the propagation and cancellation properties *)

\* the cancellations delivered in the delay between two attempts
DelayCancels == {p \in Positions("cancel") : trace[p].k = 0}
\* the cancellations delivered while a dispatched callback was awaited
DispatchCancels == {p \in Positions("cancel") : trace[p].k > 0}
\* the invocation ended at event p, raising x, without anything else happening
EndedAt(p, x) ==
    /\ p = Len(trace)
    /\ Done
    /\ outcome = Raise(x)

(* C14: in the asynchronous loop a cancellation delivered during the delay  *)
(* between attempts ends the invocation at once with the cancellation as    *)
(* its outcome: the operation is not invoked again, no callback is          *)
(* dispatched, the exhaustion resolver does not run whatever on_exhaustion  *)
(* is, and the outcome is neither a value nor a failure of the operation.   *)
C14_CancelDuringDelayAborts ==
    Built =>
        \A p \in DelayCancels :
            /\ is_async
            /\ EndedAt(p, Cancelled(calls))
            /\ calls = trace[p].id /\ count = calls
            /\ trace[p - 1] = Event("warn", calls, calls)
            /\ ~Happened("fallback") /\ ~Happened("error")
            /\ outcome.val.kind \notin {"exc", "result", "fallback", "coroutine"}

C14_Witness ==
    /\ DelayCancels # {} /\ Done
    /\ cfg.expected_exception = {"BaseException"} /\ cfg.on_exhaustion = "True"
    /\ cfg.retries = 1 /\ calls = 1 /\ Len(onex) = 1
    /\ outcome = Raise(Cancelled(1))

(* C17: a failure raised by a dispatched on_exception callback or by the    *)
(* on_exhaustion fallback is never retried, even when expected_exception    *)
(* contains its type: it reaches the caller unchanged, the operation is not *)
(* invoked again, no later registry entry is consulted, nothing is slept,   *)
(* and after a callback failure the exhaustion resolver does not run.       *)
C17_HandlerFailurePropagates ==
    Built =>
        /\ \A p \in Positions("cb_raise") :
            /\ \E t \in HandlerFailures : EndedAt(p, CbExc(t, trace[p].id))
            /\ calls = trace[p].id
            /\ trace[p - 1] = Event("cb", trace[p].id, trace[p].k)
            /\ WarningsFor(trace[p].id) = {}
            /\ ~Happened("fallback") /\ ~Happened("error")
        /\ \A p \in Positions("fallback_raise") :
            /\ \E t \in HandlerFailures : EndedAt(p, FallbackExc(t, trace[p].id))
            /\ calls = trace[p].id
            /\ trace[p - 1] = Event("fallback", trace[p].id, 0)
            /\ Cardinality(Positions("fallback")) = 1
            /\ ~Happened("error")
        /\ outcome.val.kind = "cb_exc" => LastEvent.ev = "cb_raise"
        /\ outcome.val.kind = "fallback_exc" => LastEvent.ev = "fallback_raise"

C17_Witness ==
    /\ Done /\ outcome = Raise(CbExc("KeyError", 1))
    /\ cfg.expected_exception = {"BaseException"}
    /\ Len(onex) = 2 /\ Matches(1, 2) /\ cfg.retries = 1
    /\ trace = << Event("call", 1, 0), Event("cb", 1, 1), Event("cb_raise", 1, 1) >>

(* C19: the asynchronous loop yields to the scheduler only in the delay     *)
(* between attempts and inside the wrapped operation: it never suspends     *)
(* during the callback dispatch, so no cancellation is delivered between    *)
(* the catch of a qualifying failure and the start of the delay.            *)
C19_NoSuspensionDuringDispatch ==
    Built =>
        \A p \in Positions("cancel") :
            /\ trace[p].k = 0
            /\ trace[p - 1].ev = "warn"

(* C19, amended: the asynchronous loop suspends in the wrapped operation,   *)
(* in each dispatched callback it awaits, and in the delay between          *)
(* attempts, and nowhere else; a cancellation is delivered only there: in   *)
(* the operation (where it is the call's failure), in an invoked callback,  *)
(* or after the backoff computation that gave a delay > 0.                  *)
C19_SuspendsOnlyAtAwaits ==
    /\ Positions("cancel") # {} => (Built /\ is_async)
    /\ \A p \in DispatchCancels :
        /\ trace[p - 1] = Event("cb", trace[p].id + 1, trace[p].k)
        /\ \A n \in 1..Len(onex) : onex[n].val.async
    /\ \A p \in DelayCancels :
        /\ trace[p - 1] = Event("warn", trace[p].id, trace[p].id)
        /\ current_backoff > 0
    /\ \A i \in 1..Len(results) : results[i] = "CancelledError" => is_async

C19_Witness ==
    /\ Done /\ DispatchCancels # {} /\ outcome = Raise(Cancelled(2))
    /\ cfg.path = "RetryAsync" /\ Len(onex) = 2
    /\ trace = << Event("call", 1, 0), Event("cb", 1, 1), Event("cb", 1, 2),
                  Event("warn", 1, 1), Event("sleep", 1, 0), Event("call", 2, 0),
                  Event("cb", 2, 2), Event("cancel", 1, 2) >>

-----------------------------------------------------------------------------
(* Vocabulary of the legacy decorator's properties *)

LegacyBuilt == legacy.pc \notin {"unused", "new", "config_error"}
\* one callback, a plain callable, is registered, and every call of f() so
\* far raised a failure that `except exc` catches and that the callback's key matches
LegacyAlwaysFailsWithCallback ==
    /\ Len(legacy.reg) = 1
    /\ legacy.reg[1].val.shape = "callable"
    /\ \A i \in 1..Len(legacy.results) :
        /\ legacy.results[i] # "ok"
        /\ Qualifies(legacy.results[i], legacy.exc)
        /\ isinstance(legacy.results[i], legacy.reg[1].key)

(* C16: in the legacy decorator with tries = t >= 1, an operation that      *)
(* always raises a matching exception and a plain callable registered as    *)
(* callback for it: the operation is invoked exactly t times, the callback  *)
(* exactly t - 1 times, once after each failure but the last, and the       *)
(* exception of the last invocation reaches the caller.                     *)
C16_LegacyTriesAndCallbacks ==
    (LegacyBuilt /\ LegacyAlwaysFailsWithCallback) =>
        /\ legacy.calls <= legacy.tries
        /\ legacy.cbs <= legacy.tries - 1
        /\ legacy.cbs \in {legacy.calls - 1, legacy.calls}
        /\ legacy.pc \in {"sleeping", "last"} => legacy.cbs = legacy.calls
        /\ legacy.pc = "done" =>
            /\ legacy.calls = legacy.tries
            /\ legacy.cbs = legacy.tries - 1
            /\ legacy.outcome =
                    Raise(Exc(legacy.results[legacy.tries], legacy.tries))

C16_Witness ==
    /\ legacy.pc = "done" /\ LegacyAlwaysFailsWithCallback
    /\ legacy.cbe.kind = "single"
    /\ legacy.tries = MaxTries /\ legacy.calls = MaxTries
    /\ legacy.cbs = MaxTries - 1
    /\ legacy.outcome = Raise(Exc("KeyError", MaxTries))

-----------------------------------------------------------------------------
(* Vocabulary of the independence property *)

\* the first invocation's locals, as a frame
Frame ==
    [pc |-> pc, count |-> count, e |-> e, scan |-> scan,
     current_backoff |-> current_backoff, return_val |-> return_val,
     calls |-> calls, results |-> results, outcome |-> outcome]

\* the outcome of an invocation that runs alone and whose calls of f() do
\* rs, decided from call i on; Pending while rs does not decide it
RECURSIVE SoloOutcome(_, _)
SoloOutcome(rs, i) ==
    IF i > Len(rs) THEN Pending
    ELSE IF rs[i] = "ok" THEN Return(Ok(i))
    ELSE IF ~Qualifies(rs[i], cfg.expected_exception) THEN Raise(Exc(rs[i], i))
    ELSE IF cfg.retries # -1 /\ i = cfg.retries + 1
    THEN IF cfg.on_exhaustion = "False" THEN Raise(Exc(rs[i], i))
         ELSE IF cfg.on_exhaustion = "True" THEN Return(Exc(rs[i], i))
         ELSE Return(Fallback(cfg.on_exhaustion, Exc(rs[i], i)))
    ELSE SoloOutcome(rs, i + 1)

\* the number of leading failures of rs that expected_exception catches
RECURSIVE CaughtPrefix(_, _)
CaughtPrefix(rs, i) ==
    IF i > Len(rs) \/ rs[i] = "ok" \/ ~Qualifies(rs[i], cfg.expected_exception)
    THEN i - 1
    ELSE CaughtPrefix(rs, i + 1)

\* frame f is where an invocation running alone on f.results would be
AsIfAlone(f) ==
    /\ f.calls = Len(f.results)
    /\ f.count <= CaughtPrefix(f.results, 1)
    /\ f.count >= CaughtPrefix(f.results, 1) - 1
    /\ f.pc \in {"attempting", "sleeping"} =>
        /\ SoloOutcome(f.results, 1) = Pending
        /\ f.count = f.calls
    /\ f.pc = "done" => f.outcome = SoloOutcome(f.results, 1)
    /\ f.pc # "done" => f.outcome = Pending

(* C15: invocations that share one policy and run interleaved are           *)
(* independent: each has its own attempt counter and last failure, a step   *)
(* of one changes neither the other's locals nor the policy and the         *)
(* registry, and each invocation's number of attempts and outcome are those *)
(* of a run alone against the same sequence of operation results.           *)
C15_InvocationsIndependent ==
    /\ [](Built => (AsIfAlone(Frame) /\ AsIfAlone(other)))
    /\ [][/\ other' # other => UNCHANGED <<Frame, cfg, onex>>
          /\ (Built /\ Frame' # Frame) => UNCHANGED <<other, cfg, onex>>]_vars

C15_Witness ==
    /\ Done /\ other.pc = "done"
    /\ cfg.retries = 1 /\ cfg.on_exhaustion = "sync_fn"
    /\ results = << "KeyError", "KeyError" >> /\ count = 2
    /\ other.results = << "KeyError", "ok" >> /\ other.count = 1
    /\ outcome = Return(Fallback("sync_fn", Exc("KeyError", 2)))
    /\ other.outcome = Return(Ok(2))

-----------------------------------------------------------------------------
(* C22: for every policy construction accepts, whatever the integer         *)
(* retries, an invocation calls the operation at least once and ends with   *)
(* the operation's value, the returned failure or fallback value, or a      *)
(* propagated failure of the operation, of a callback, of the fallback or   *)
(* a cancellation: never with an error of the loop itself and no attempt.   *)
C22_AttemptsOnceAndDocumentedOutcome ==
    (Built /\ Done) =>
        /\ calls >= 1
        /\ outcome.val # UnboundLocalError
        /\ outcome.val.kind \in {"result", "exc", "fallback", "coroutine",
                                 "cb_exc", "fallback_exc", "cancelled"}
        /\ outcome.val.kind = "exc" => outcome.val = FailureOf(outcome.val.id)

(* C23: in the asynchronous loop a cancellation delivered while the         *)
(* wrapped operation runs reaches the caller as the cancellation and is     *)
(* never handled as a qualifying failure: no callback, no warning or        *)
(* backoff, no further attempt and no exhaustion handling follow it,        *)
(* whatever expected_exception is, the default BaseException included.      *)
C23_CancelInOperationPropagates ==
    Built =>
        \A i \in 1..Len(results) :
            results[i] = "CancelledError" =>
                /\ i = calls
                /\ Done
                /\ outcome = Raise(Exc("CancelledError", i))
                /\ LastEvent = Event("call", i, 0)
                /\ count < i
                /\ e.id # i

-----------------------------------------------------------------------------
(* Vocabulary of the termination property *)

\* the invocation has started and has not ended
Running == pc \in {"attempting", "dispatching", "delay", "sleeping", "exceeded"}
\* the qualifying failures f() has raised so far
NumCaught == Cardinality({i \in 1..Len(results) : QualifyingAt(i)})

\* the counter is the number of qualifying failures caught, the one whose
\* callbacks are being dispatched not yet counted; a bounded budget n allows
\* n + 1 failures and n + 1 calls; an unbounded one never gives up
CounterTracksFailures ==
    Built =>
        /\ calls = Len(results)
        /\ pc \in {"dispatching", "delay"} => count = NumCaught - 1
        /\ pc \notin {"dispatching", "delay"} => count = NumCaught
        /\ Bounded => (count <= cfg.retries + 1 /\ calls <= cfg.retries + 1)
        /\ (cfg.retries = -1 /\ AllQualifying) =>
            /\ ~Done /\ pc # "exceeded"
            /\ outcome = Pending
            /\ ~Happened("fallback") /\ ~Happened("error")

====
